---------------------------- MODULE Spec2Model ----------------------------
(***************************************************************************)
(* A model of two parts of the zkevm-circuits repository:                  *)
(*                                                                         *)
(*  - bus-mapping/src/exec_trace.rs: ExecutionTrace construction           *)
(*    (from_trace_bytes, new, build), the sorted projections of the        *)
(*    operation container, and add_op_to_container;                        *)
(*  - zkevm-circuits/src/evm_circuit/op_execution/arithmetic.rs: the       *)
(*    AddGadget (ADD / SUB) constraints and its witness assignment.        *)
(*                                                                         *)
(* The two parts do not share state.  SpecTrace runs the first, SpecGadget *)
(* the second; the variables of the other part keep their initial value.   *)
(***************************************************************************)
EXTENDS Integers, Sequences, FiniteSets, TLC

VARIABLES
    \* ---- exec_trace.rs ----
    input,          \* the bytes handed to from_trace_bytes, as what they decode to
    phase,          \* position in from_trace_bytes / new / build
    steps,          \* ExecutionTrace.steps
    container,      \* ExecutionTrace.container
    new_container,  \* build's local `new_container`
    gc,             \* build's local `gc`
    idx,            \* position of build's for_each over the steps (1-based)
    returned,       \* what from_trace_bytes gave back to its caller
    sorted,         \* the value returned by the last sorted_*_ops call
    added,          \* add_op_to_container calls made on the trace so far
    \* ---- arithmetic.rs ----
    core_state,     \* the CoreStateInstance threaded through assign
    region,         \* the rows assigned so far, one per assign call
    gas_available,  \* the out_of_gas case's gas-available cell
    assign_result   \* what the last assign call returned

traceVars  == <<input, phase, steps, container, new_container, gc, idx,
                returned, sorted, added>>
gadgetVars == <<core_state, region, gas_available, assign_result>>
vars       == <<input, phase, steps, container, new_container, gc, idx,
                returned, sorted, added, core_state, region, gas_available,
                assign_result>>

---------------------------------------------------------------------------
(* Bounds of the model.                                                    *)

\* Longest trace (number of steps) given to from_trace_bytes.
MaxSteps == 3

\* Limbs of a word in the model.  The circuit's words have 32 limbs; the
\* carry chain is the same polynomial at every limb after the first, and
\* the model carries it over NumLimbs limbs.
NumLimbs == 2

\* Most rows (assign calls) of one run of the gadget.
MaxRows == 2

\* Largest value of the gas-available cell tried.
MaxGasAvailable == 3

\* Most add_op_to_container calls made on one built trace.
MaxAdds == 1

---------------------------------------------------------------------------
(* exec_trace.rs: data                                                     *)

Targets == {"Stack", "Memory", "Storage"}

\* The depth of the EVM stack: StackAddress of a push is 1024 - stack.len().
StackDepth == 1024

\* OperationContainer::new(): one empty store per Target.
EmptyContainer == [Stack |-> <<>>, Memory |-> <<>>, Storage |-> <<>>]

\* An operation template: what an opcode's generator inserts, before the
\* generator has given it a global counter.
Tmpl(t, rw, a, v) == [target |-> t, rw |-> rw, address |-> a, value |-> v]

\* The steps a trace is made of, as ExecutionStep::try_from yields them.
\* `opcode` PUSH1 is the instruction of the repository's test; OTHER stands
\* for any other instruction, whose generator inserts the operations `emits`
\* (in that order); FAULT is an instruction whose generator fails.
\* `stack` is the step's stack snapshot, `imm` the instruction's immediate.
Step(op, imm, stack, emits) ==
    [opcode |-> op, imm |-> imm, stack |-> stack, emits |-> emits,
     gc |-> 0, bus_mapping_instance |-> <<>>]

Push40  == Step("PUSH1", 64, <<64>>, <<>>)
Push80  == Step("PUSH1", 128, <<64, 128>>, <<>>)
NoOps   == Step("OTHER", 0, <<>>, <<>>)
MemPair == Step("OTHER", 0, <<64>>,
                <<Tmpl("Memory", "WRITE", 32, 7), Tmpl("Memory", "READ", 0, 0)>>)
StoMix  == Step("OTHER", 0, <<64>>,
                <<Tmpl("Storage", "WRITE", 2, 9), Tmpl("Stack", "READ", 1023, 64)>>)
StoLow  == Step("OTHER", 0, <<>>,
                <<Tmpl("Storage", "READ", 1, 0), Tmpl("Memory", "READ", 32, 7)>>)
Faulty  == Step("FAULT", 0, <<>>, <<>>)

StepKinds == {Push40, Push80, NoOps, MemPair, StoMix, StoLow, Faulty}

\* One element of the decoded JSON array (a ParsedExecutionStep): either it
\* converts to an ExecutionStep, or ExecutionStep::try_from rejects it.
ParsedSteps == [ok : {TRUE}, step : StepKinds] \cup {[ok |-> FALSE, step |-> NoOps]}

SeqsUpTo(S, n) == UNION {[1..k -> S] : k \in 0..n}

\* The inputs of from_trace_bytes: bytes that are not the schema
\* (serde_json::from_slice fails), or bytes that decode to a list of steps.
Inputs ==
    {[schema_ok |-> FALSE, parsed |-> <<>>]}
        \cup [schema_ok : {TRUE}, parsed : SeqsUpTo(ParsedSteps, MaxSteps)]

Pending == [tag |-> "Pending", error |-> "-"]
Ok      == [tag |-> "Ok", error |-> "-"]
Err(e)  == [tag |-> "Err", error |-> e]
Panic   == [tag |-> "Panic", error |-> "-"]

NoView == [target |-> "-", ops |-> <<>>]

---------------------------------------------------------------------------
(* operation/container.rs                                                  *)

\* OperationRef(Target, usize): the target and the index of the operation
\* in that target's store.
OperationRef(t, i) == <<t, i>>

\* OperationContainer::insert: append op to the store of its target, and
\* return the locator of the entry it now occupies.
Insert(c, op) == [c EXCEPT ![op.target] = Append(@, op)]
InsertRef(c, op) == OperationRef(op.target, Len(c[op.target]) + 1)

\* The order of the sorted views: address first, then global counter.
OpLess(x, y) ==
    \/ x.address < y.address
    \/ x.address = y.address /\ x.gc < y.gc

\* Insertion of x into a sorted sequence s, after every entry not above it.
RECURSIVE InsertSorted(_, _)
InsertSorted(s, x) ==
    IF s = <<>> THEN <<x>>
    ELSE IF OpLess(x, Head(s)) THEN <<x>> \o s
    ELSE <<Head(s)>> \o InsertSorted(Tail(s), x)

RECURSIVE SortOps(_)
SortOps(s) ==
    IF s = <<>> THEN <<>>
    ELSE InsertSorted(SortOps(SubSeq(s, 1, Len(s) - 1)), s[Len(s)])

\* OperationContainer::sorted_stack / sorted_memory / sorted_storage: a
\* sorted copy of one store; the container is not touched.
sorted_stack(c)   == SortOps(c.Stack)
sorted_memory(c)  == SortOps(c.Memory)
sorted_storage(c) == SortOps(c.Storage)

---------------------------------------------------------------------------
(* exec_trace/exec_step.rs and the opcodes' operation generators           *)

\* Whether the step's generator fails.
GenFails(step) == step.opcode = "FAULT"

\* The operations the generator of `step` inserts, in order; step.gc has
\* been set.  PUSH1 writes the pushed value at 1024 - stack.len(); every
\* generated operation takes the next global counter after the step's own.
GenTemplates(step) ==
    IF step.opcode = "PUSH1"
    THEN <<Tmpl("Stack", "WRITE", StackDepth - Len(step.stack), step.imm)>>
    ELSE step.emits

GenOps(step) ==
    [j \in 1..Len(GenTemplates(step)) |->
        [target  |-> GenTemplates(step)[j].target,
         rw      |-> GenTemplates(step)[j].rw,
         gc      |-> step.gc + j,
         address |-> GenTemplates(step)[j].address,
         value   |-> GenTemplates(step)[j].value]]

\* The container after the operations `ops` were inserted one by one.
RECURSIVE InsertAll(_, _)
InsertAll(c, ops) ==
    IF ops = <<>> THEN c
    ELSE InsertAll(Insert(c, Head(ops)), Tail(ops))

\* The OperationRefs those insertions returned, in order.
RECURSIVE RefsOf(_, _)
RefsOf(c, ops) ==
    IF ops = <<>> THEN <<>>
    ELSE <<InsertRef(c, Head(ops))>> \o RefsOf(Insert(c, Head(ops)), Tail(ops))

\* ExecutionStep::gen_associated_ops: insert the step's operations into the
\* container, push their refs to the step's bus-mapping instance, return
\* how many were inserted.
GenContainer(step, c) == InsertAll(c, GenOps(step))
GenStep(step, c) ==
    [step EXCEPT !.bus_mapping_instance = @ \o RefsOf(c, GenOps(step))]
GenCount(step) == Len(GenOps(step))

---------------------------------------------------------------------------
(* exec_trace.rs: ExecutionTrace                                           *)

\* exec_step.set_gc(gc)
SetGc_Skip(step, g) == step
SetGc(step, g) == [step EXCEPT !.gc = g]

\* gc += <number of generated ops>; gc += 1;
NextGc_NoTick(g, n) == g + n
NextGc_NoOps(g, n) == g + 1
NextGc(g, n) == g + n + 1

\* .iter().map(ExecutionStep::try_from).collect::<Result<Vec<_>, Error>>():
\* every step converted, or the error of the first that is not.
ConvertAll_DropBad(parsed) ==
    [ok |-> TRUE, steps |-> SelectSeq(parsed, LAMBDA p : p.ok)]
ConvertAll(parsed) ==
    IF \A i \in 1..Len(parsed) : parsed[i].ok
    THEN [ok |-> TRUE, steps |-> parsed]
    ELSE [ok |-> FALSE, steps |-> <<>>]

\* from_trace_bytes up to the first iteration of build: decode, convert,
\* then new() makes the trace with an empty container and build() starts
\* with gc = 0 and a fresh container.
FromTraceBytes ==
    /\ phase = "bytes"
    /\ IF ~input.schema_ok
       THEN /\ returned' = Err("SerdeError")
            /\ phase' = "error"
            /\ UNCHANGED <<steps, container, new_container, gc, idx>>
       ELSE IF ~ConvertAll(input.parsed).ok
       THEN /\ returned' = Err("ConvertError")
            /\ phase' = "error"
            /\ UNCHANGED <<steps, container, new_container, gc, idx>>
       ELSE /\ steps' = [i \in 1..Len(ConvertAll(input.parsed).steps) |->
                            ConvertAll(input.parsed).steps[i].step]
            /\ container' = EmptyContainer
            /\ new_container' = EmptyContainer
            /\ gc' = 0
            /\ idx' = 1
            /\ phase' = "building"
            /\ UNCHANGED returned
    /\ UNCHANGED <<input, sorted, added>>
    /\ UNCHANGED gadgetVars

\* One iteration of build's for_each.  A generator has no error to return
\* (its result is added to gc): when it fails the call unwinds, and the
\* trace under construction is dropped with it.
BuildStep ==
    /\ phase = "building"
    /\ idx <= Len(steps)
    /\ IF GenFails(steps[idx])
       THEN /\ returned' = Panic
            /\ phase' = "panicked"
            /\ steps' = <<>>
            /\ container' = EmptyContainer
            /\ new_container' = EmptyContainer
            /\ UNCHANGED <<gc, idx>>
       ELSE /\ steps' = [steps EXCEPT
                            ![idx] = GenStep(SetGc(@, gc), new_container)]
            /\ new_container' = GenContainer(SetGc(steps[idx], gc), new_container)
            /\ gc' = NextGc(gc, GenCount(SetGc(steps[idx], gc)))
            /\ idx' = idx + 1
            /\ UNCHANGED <<returned, phase, container>>
    /\ UNCHANGED <<input, sorted, added>>
    /\ UNCHANGED gadgetVars

\* The end of build: self.container = new_container; the trace is returned
\* through new() and from_trace_bytes as Ok.
BuildFinish ==
    /\ phase = "building"
    /\ idx > Len(steps)
    /\ container' = new_container
    /\ returned' = Ok
    /\ phase' = "built"
    /\ UNCHANGED <<input, steps, new_container, gc, idx, sorted, added>>
    /\ UNCHANGED gadgetVars

\* ExecutionTrace::sorted_stack_ops / sorted_memory_ops / sorted_storage_ops
sorted_stack_ops_Wrong   == sorted_memory(container)
sorted_stack_ops   == sorted_stack(container)
sorted_memory_ops  == sorted_memory(container)
sorted_storage_ops == sorted_storage(container)

\* The operations handed to add_op_to_container: one per target, the first
\* equal to the operation the PUSH1 0x40 step generates.
AddOps ==
    {[target |-> "Stack", rw |-> "WRITE", gc |-> 1, address |-> 1023,
      value |-> 64],
     [target |-> "Memory", rw |-> "READ", gc |-> 9, address |-> 0,
      value |-> 0],
     [target |-> "Storage", rw |-> "WRITE", gc |-> 10, address |-> 1,
      value |-> 5]}

\* self.steps[exec_step_idx].bus_mapping_instance_mut().push(op_ref)
PushRef_First(ss, i, ref) ==
    [ss EXCEPT ![1].bus_mapping_instance = Append(@, ref)]
PushRef(ss, i, ref) ==
    [ss EXCEPT ![i].bus_mapping_instance = Append(@, ref)]

\* ExecutionTrace::add_op_to_container, on a trace from_trace_bytes has
\* returned.  The operation is inserted first; indexing self.steps with an
\* exec_step_idx that is not a step then panics, after the insertion.
add_op_to_container(op, exec_step_idx) ==
    /\ phase \in {"built", "added"}
    /\ added < MaxAdds
    /\ container' = Insert(container, op)
    /\ IF exec_step_idx \in 1..Len(steps)
       THEN /\ steps' = PushRef(steps, exec_step_idx, InsertRef(container, op))
            /\ phase' = "added"
       ELSE /\ steps' = steps
            /\ phase' = "add_panicked"
    /\ added' = added + 1
    /\ UNCHANGED <<input, new_container, gc, idx, returned, sorted>>
    /\ UNCHANGED gadgetVars

SortedOps(t) ==
    /\ phase = "built"
    /\ sorted' = [target |-> t,
                  ops |-> CASE t = "Stack"   -> sorted_stack_ops
                            [] t = "Memory"  -> sorted_memory_ops
                            [] t = "Storage" -> sorted_storage_ops]
    /\ UNCHANGED <<input, phase, steps, container, new_container, gc, idx,
                   returned, added>>
    /\ UNCHANGED gadgetVars

---------------------------------------------------------------------------
(* arithmetic.rs: data                                                     *)
(*                                                                         *)
(* Cells hold elements of the field F (the Pallas base field, a prime of   *)
(* 255 bits).  Every value of the model is below 2^20 in magnitude, far    *)
(* from the modulus, so an expression is zero in F exactly when it is zero *)
(* over the integers, which is how the polynomials are evaluated here.     *)

\* RESPONSIBLE_OPCODES: &[1, 3]
OpAdd == 1
OpSub == 3
RESPONSIBLE_OPCODES == {OpAdd, OpSub}

\* The opcodes a step is tried with: the gadget's two and one that is not
\* its own (ExecutionStep.opcode is any byte).
Opcodes == {1, 2, 3}

\* CASE_CONFIGS
Cases == {"Success", "StackUnderflow", "OutOfGas"}

\* Expression::Constant(F::from_u64(1 << 8))
Exp256 == 256

LimbIdx == 1..NumLimbs

\* Words used as operands: limb i of the word, little-endian.
ConstWord(v) == [i \in LimbIdx |-> v]
LowWord(v)   == [i \in LimbIdx |-> IF i = 1 THEN v ELSE 0]
RampWord(k)  == [i \in LimbIdx |-> i + k]

\* The carry out of limb i and limb i of the sum when the bytes of a and b
\* are added limb by limb (how a trace records an ADD).
RECURSIVE CarryOut(_, _, _)
CarryOut(a, b, i) ==
    IF i = 0 THEN 0 ELSE (a[i] + b[i] + CarryOut(a, b, i - 1)) \div 256
SumLimb(a, b, i) == (a[i] + b[i] + CarryOut(a, b, i - 1)) % 256

\* ExecutionStep.values: [a, b, c, carry], each an array of bytes.
Recorded(a, b) ==
    [a |-> a, b |-> b,
     c |-> [i \in LimbIdx |-> SumLimb(a, b, i)],
     carry |-> [i \in LimbIdx |-> CarryOut(a, b, i)]]

\* Recorded values that are not an addition: a wrong result limb, a wrong
\* last carry.
WrongResult(v) == [v EXCEPT !.c[1] = (@ + 1) % 256]
WrongCarry(v)  == [v EXCEPT !.carry[NumLimbs] = 1 - @]

TestPair   == <<RampWord(0), RampWord(3)>>      \* the test's 1,2,3.. + 4,5,6..
RipplePair == <<ConstWord(255), LowWord(1)>>    \* a carry through every limb
LowPair    == <<LowWord(255), ConstWord(1)>>    \* a carry out of limb 0 only

StepValues ==
    {Recorded(TestPair[1], TestPair[2]),
     Recorded(RipplePair[1], RipplePair[2]),
     Recorded(LowPair[1], LowPair[2]),
     WrongResult(Recorded(TestPair[1], TestPair[2])),
     WrongCarry(Recorded(RipplePair[1], RipplePair[2])),
     WrongCarry(Recorded(LowPair[1], LowPair[2]))}

\* The ExecutionSteps handed to assign.
ExecutionSteps ==
    [opcode : Opcodes, case : {"Success"}, values : StepValues]
      \cup [opcode : Opcodes, case : Cases \ {"Success"},
            values : {Recorded(RampWord(0), RampWord(3))}]

\* The core states a run may start from.
InitialCoreStates ==
    [global_counter : {0}, program_counter : {0},
     stack_pointer : {1000, 1022}, gas_counter : {0}]

\* OpExecutionState: the cells of a row's interpreter state.
OpState(opcode, cs) ==
    [opcode |-> opcode,
     global_counter  |-> cs.global_counter,
     program_counter |-> cs.program_counter,
     stack_pointer   |-> cs.stack_pointer,
     gas_counter     |-> cs.gas_counter]

---------------------------------------------------------------------------
(* arithmetic.rs: AddGadget::constraints                                   *)

AllZero(polys) == \A i \in 1..Len(polys) : polys[i] = 0

\* (opcode - add) * (opcode - sub)
common_polys(curr) ==
    <<(curr.opcode - OpAdd) * (curr.opcode - OpSub)>>

\* interpreter state transition constraints
op_execution_state_transition_constraints(curr, next) ==
    <<next.global_counter  - (curr.global_counter + 3),
      next.stack_pointer   - (curr.stack_pointer + 1),
      next.program_counter - (curr.program_counter + 1),
      next.gas_counter     - (curr.gas_counter + 3)>>

\* swap a and c if it's SUB
swap_constraints_NoAddSide(curr, w) ==
    <<w.swap * (1 - w.swap),
      w.swap * (curr.opcode - OpSub)>>
swap_constraints(curr, w) ==
    <<w.swap * (1 - w.swap),
      w.swap * (curr.opcode - OpSub),
      (1 - w.swap) * (curr.opcode - OpAdd)>>

\* One polynomial per limb; limb idx > 1 takes the carry of limb idx - 1.
AddPoly(w, i) ==
    IF i = 1
    THEN (w.carry[1] * Exp256 + w.c[1]) - (w.a[1] + w.b[1])
    ELSE (w.carry[i] * Exp256 + w.c[i]) - (w.a[i] + w.b[i] + w.carry[i - 1])

add_constraints_ShortLoop(w) == [i \in 1..(NumLimbs - 1) |-> AddPoly(w, i)]
add_constraints_NoCarryIn(w) ==
    [i \in LimbIdx |-> (w.carry[i] * Exp256 + w.c[i]) - (w.a[i] + w.b[i])]
add_constraints(w) == [i \in LimbIdx |-> AddPoly(w, i)]

\* Constraint "AddGadget success": polys
success_polys(curr, next, w) ==
    common_polys(curr)
      \o op_execution_state_transition_constraints(curr, next)
      \o swap_constraints(curr, w)
      \o add_constraints(w)

\* Constraint "AddGadget stack underflow": polys
stack_underflow_polys_Off(curr) ==
    common_polys(curr)
      \o <<(curr.stack_pointer - 1024) * (curr.stack_pointer - 1022)>>
stack_underflow_polys(curr) ==
    common_polys(curr)
      \o <<(curr.stack_pointer - 1024) * (curr.stack_pointer - 1023)>>

\* Constraint "AddGadget out of gas": polys
gas_overdemand(curr, ga) == curr.gas_counter + 3 - ga
out_of_gas_polys_NoThree(curr, ga) ==
    common_polys(curr)
      \o <<(gas_overdemand(curr, ga) - 1) * (gas_overdemand(curr, ga) - 2)>>
out_of_gas_polys(curr, ga) ==
    common_polys(curr)
      \o <<(gas_overdemand(curr, ga) - 1)
             * (gas_overdemand(curr, ga) - 2)
             * (gas_overdemand(curr, ga) - 3)>>

---------------------------------------------------------------------------
(* arithmetic.rs: AddGadget::assign                                        *)

\* The backend assignment calls of assign_success, in order: swap, a, b, c,
\* then one per carry.
TotalCalls == 4 + NumLimbs

\* core_state.global_counter += 3; program_counter += 1;
\* stack_pointer += 1; gas_counter += 3
Advance_SpDown(cs) ==
    [global_counter  |-> cs.global_counter + 3,
     program_counter |-> cs.program_counter + 1,
     stack_pointer   |-> cs.stack_pointer - 1,
     gas_counter     |-> cs.gas_counter + 3]
Advance(cs) ==
    [global_counter  |-> cs.global_counter + 3,
     program_counter |-> cs.program_counter + 1,
     stack_pointer   |-> cs.stack_pointer + 1,
     gas_counter     |-> cs.gas_counter + 3]

\* F::from_u64((execution_step.opcode == 3) as u64)
SwapValue_Add(opcode) == IF opcode = 1 THEN 1 ELSE 0
SwapValue(opcode) == IF opcode = 3 THEN 1 ELSE 0

\* The cells of the row after the first n backend calls succeeded; a cell
\* never assigned reads as zero.
AssignCells(step, n) ==
    [swap  |-> IF n >= 1 THEN SwapValue(step.opcode) ELSE 0,
     a     |-> IF n >= 2 THEN step.values.a ELSE ConstWord(0),
     b     |-> IF n >= 3 THEN step.values.b ELSE ConstWord(0),
     c     |-> IF n >= 4 THEN step.values.c ELSE ConstWord(0),
     carry |-> [i \in LimbIdx |->
                  IF n >= 4 + i THEN step.values.carry[i] ELSE 0]]

\* assign, Case::Success: assign_success.  The core state is advanced
\* first; then the cells are assigned one backend call after another, and
\* the first call that fails ends assign_success with its error.  n is the
\* number of backend calls that succeed.
AssignSuccess(step, n) ==
    /\ assign_result \in {"-", "Ok"}
    /\ Len(region) < MaxRows
    /\ step.case = "Success"
    /\ core_state' = Advance(core_state)
    /\ region' = Append(region,
                        [step  |-> step,
                         curr  |-> OpState(step.opcode, core_state),
                         calls |-> n,
                         cells |-> AssignCells(step, n)])
    /\ assign_result' = IF n = TotalCalls THEN "Ok" ELSE "Err"
    /\ UNCHANGED gas_available
    /\ UNCHANGED traceVars

\* assign, Case::StackUnderflow and Case::OutOfGas: unimplemented!()
AssignUnimplemented(step) ==
    /\ assign_result \in {"-", "Ok"}
    /\ Len(region) < MaxRows
    /\ step.case \in {"StackUnderflow", "OutOfGas"}
    /\ assign_result' = "Panic"
    /\ UNCHANGED <<core_state, region, gas_available>>
    /\ UNCHANGED traceVars

IdleGadget ==
    /\ core_state = [global_counter |-> 0, program_counter |-> 0,
                     stack_pointer |-> 0, gas_counter |-> 0]
    /\ region = <<>>
    /\ gas_available = 0
    /\ assign_result = "-"

IdleTrace ==
    /\ input = [schema_ok |-> FALSE, parsed |-> <<>>]
    /\ phase = "idle"
    /\ steps = <<>>
    /\ container = EmptyContainer
    /\ new_container = EmptyContainer
    /\ gc = 0
    /\ idx = 1
    /\ returned = Pending
    /\ sorted = NoView
    /\ added = 0

---------------------------------------------------------------------------
(* Specification of the gadget part                                        *)

InitGadget ==
    /\ core_state \in InitialCoreStates
    /\ region = <<>>
    /\ gas_available \in 0..MaxGasAvailable
    /\ assign_result = "-"
    /\ IdleTrace

NextGadget ==
    \/ \E step \in ExecutionSteps, n \in 0..TotalCalls : AssignSuccess(step, n)
    \/ \E step \in ExecutionSteps : AssignUnimplemented(step)

SpecGadget == InitGadget /\ [][NextGadget]_vars

---------------------------------------------------------------------------
(* Specification of the trace part                                         *)

InitTrace ==
    /\ input \in Inputs
    /\ phase = "bytes"
    /\ steps = <<>>
    /\ container = EmptyContainer
    /\ new_container = EmptyContainer
    /\ gc = 0
    /\ idx = 1
    /\ returned = Pending
    /\ sorted = NoView
    /\ added = 0
    /\ IdleGadget

NextTrace ==
    \/ FromTraceBytes
    \/ BuildStep
    \/ BuildFinish
    \/ \E t \in Targets : SortedOps(t)
    \/ \E op \in AddOps, i \in 1..(Len(steps) + 1) : add_op_to_container(op, i)

SpecTrace == InitTrace /\ [][NextTrace]_vars

---------------------------------------------------------------------------
(* Properties of the trace part                                            *)

\* Every operation of a container, store after store.
AllOps(c) == c.Stack \o c.Memory \o c.Storage

\* The operation an OperationRef locates.
Resolve(c, ref) == c[ref[1]][ref[2]]
RefValid(c, ref) == ref[1] \in Targets /\ ref[2] \in 1..Len(c[ref[1]])

Count(x, s) == Cardinality({i \in 1..Len(s) : s[i] = x})
Range(s) == {s[i] : i \in 1..Len(s)}

\* C1: after build, step 0 has global counter 0 and consecutive steps differ
\* by the number of operations the earlier step's generator inserted (the
\* operations its bus-mapping instance references in the container) plus 1.
C1_GlobalCounterDeltas ==
    phase = "built" =>
        /\ Len(steps) > 0 => steps[1].gc = 0
        /\ \A i \in 1..Len(steps) :
              \A k \in 1..Len(steps[i].bus_mapping_instance) :
                 RefValid(container, steps[i].bus_mapping_instance[k])
        /\ \A i \in 1..(Len(steps) - 1) :
              steps[i + 1].gc - steps[i].gc
                 = Len(steps[i].bus_mapping_instance) + 1

\* C1's case: a built trace of three steps where one step generated two
\* operations and another none.
C1_Witness ==
    /\ phase = "built"
    /\ Len(steps) = 3
    /\ Len(steps[1].bus_mapping_instance) = 2
    /\ Len(steps[2].bus_mapping_instance) = 0
    /\ steps[3].gc = 4

\* C2: in the container of a built trace no two operations, of whatever
\* target, have the same global counter.
C2_DistinctGlobalCounters ==
    phase = "built" =>
        \A i, j \in 1..Len(AllOps(container)) :
            i # j => AllOps(container)[i].gc # AllOps(container)[j].gc

\* C2's case: a built trace whose container holds operations in all three
\* stores, generated by more than one step.
C2_Witness ==
    /\ phase = "built"
    /\ Len(container.Stack) > 0
    /\ Len(container.Memory) > 1
    /\ Len(container.Storage) > 0
    /\ Len(AllOps(container)) >= 5

\* What a sorted view must be, against the store it was taken from.
SortedViewOk(view, c) ==
    /\ view.target \in Targets
    /\ Len(view.ops) = Len(c[view.target])
    /\ \A x \in Range(view.ops) \cup Range(c[view.target]) :
          Count(x, view.ops) = 1 /\ Count(x, c[view.target]) = 1
    /\ \A i, j \in 1..Len(view.ops) :
          i < j => OpLess(view.ops[i], view.ops[j])
    /\ SortOps(view.ops) = view.ops

\* C3: each sorted_*_ops call returns every operation of its target exactly
\* once, strictly ordered by (address, global counter); re-sorting the result
\* changes nothing; the call leaves the container as it was.
C3_SortedViews ==
    [][\A t \in Targets :
          SortedOps(t) =>
              /\ sorted'.target = t
              /\ SortedViewOk(sorted', container')
              /\ container' = container]_vars

\* C3's case: a sorted view of three or more operations whose order differs
\* from the insertion order, with two entries at the same address.
C3_Witness ==
    /\ sorted.target = "Stack"
    /\ Len(sorted.ops) >= 3
    /\ sorted.ops # container.Stack
    /\ \E i \in 1..(Len(sorted.ops) - 1) :
          sorted.ops[i].address = sorted.ops[i + 1].address

\* A trace made of PUSH1 steps only.
AllPush == \A i \in 1..Len(steps) : steps[i].opcode = "PUSH1"

\* C4: in a built trace of PUSH1 steps, step i generated exactly one
\* operation, a stack WRITE of the pushed value at 1024 - stack.len() with
\* the step's counter plus 1, referenced once from step i, and nothing in
\* the memory and storage stores; PUSH1 0x40, PUSH1 0x80 gives step counters
\* 0 and 2 and writes at 1023 and 1022 with counters 1 and 3.
C4_Push1Trace ==
    (phase = "built" /\ AllPush) =>
        /\ Len(container.Stack) = Len(steps)
        /\ container.Memory = <<>>
        /\ container.Storage = <<>>
        /\ \A i \in 1..Len(steps) :
              /\ Len(steps[i].bus_mapping_instance) = 1
              /\ steps[i].bus_mapping_instance[1][1] = "Stack"
              /\ RefValid(container, steps[i].bus_mapping_instance[1])
              /\ Resolve(container, steps[i].bus_mapping_instance[1])
                    = container.Stack[i]
              /\ container.Stack[i] =
                    [target  |-> "Stack",
                     rw      |-> "WRITE",
                     gc      |-> steps[i].gc + 1,
                     address |-> 1024 - Len(steps[i].stack),
                     value   |-> steps[i].imm]
        /\ (Len(steps) = 2 /\ steps[1].imm = 64 /\ steps[1].stack = <<64>>
              /\ steps[2].imm = 128 /\ steps[2].stack = <<64, 128>>) =>
              /\ steps[1].gc = 0
              /\ steps[2].gc = 2
              /\ container.Stack =
                    <<[target |-> "Stack", rw |-> "WRITE", gc |-> 1,
                       address |-> 1023, value |-> 64],
                      [target |-> "Stack", rw |-> "WRITE", gc |-> 3,
                       address |-> 1022, value |-> 128]>>

\* C4's case: the built trace of the repository's test, PUSH1 0x40 then
\* PUSH1 0x80.
C4_Witness ==
    /\ phase = "built"
    /\ Len(steps) = 2
    /\ steps[1].opcode = "PUSH1" /\ steps[1].imm = 64
    /\ steps[2].opcode = "PUSH1" /\ steps[2].imm = 128
    /\ Len(steps[2].stack) = 2
    /\ Len(container.Stack) = 2

\* What the input holds.
SchemaFails  == ~input.schema_ok
ConvertFails == input.schema_ok
                  /\ \E i \in 1..Len(input.parsed) : ~input.parsed[i].ok
GeneratorFails ==
    /\ input.schema_ok
    /\ ~ConvertFails
    /\ \E i \in 1..Len(input.parsed) : GenFails(input.parsed[i].step)

Finished == phase \in {"built", "error", "panicked", "added", "add_panicked"}
NoTrace  == steps = <<>> /\ container = EmptyContainer

\* The counter build gives step i: one tick per earlier step and one per
\* operation an earlier step generates.
RECURSIVE ExpectedGc(_)
ExpectedGc(i) ==
    IF i = 1 THEN 0
    ELSE ExpectedGc(i - 1) + Len(GenTemplates(input.parsed[i - 1].step)) + 1

\* Every step of the input is in the trace, with its counter assigned and
\* its operations in the container.
TraceComplete ==
    /\ Len(steps) = Len(input.parsed)
    /\ \A i \in 1..Len(steps) :
          /\ steps[i].gc = ExpectedGc(i)
          /\ Len(steps[i].bus_mapping_instance)
                = Len(GenTemplates(input.parsed[i].step))
          /\ \A k \in 1..Len(steps[i].bus_mapping_instance) :
                /\ RefValid(container, steps[i].bus_mapping_instance[k])
                /\ Resolve(container, steps[i].bus_mapping_instance[k]).gc
                      = steps[i].gc + k
                /\ Resolve(container, steps[i].bus_mapping_instance[k]).address
                      = GenTemplates(input.parsed[i].step)[k].address

\* C9 as stated: every failure, a failing operation generator included,
\* makes from_trace_bytes yield an error and no trace; a yielded trace is
\* complete.
C9_Original ==
    /\ (Finished /\ (SchemaFails \/ ConvertFails \/ GeneratorFails)) =>
           (returned.tag = "Err" /\ NoTrace)
    /\ (returned.tag = "Ok" /\ phase = "built") => TraceComplete

\* C9, amended: a schema violation or a step that cannot be converted makes
\* from_trace_bytes return one error and no trace; build has no error to
\* return, so a failing operation generator ends the call by unwinding,
\* which yields no trace and no error value; nothing is yielded before the
\* call ends; a yielded trace is complete.
C9_AllOrNothing ==
    /\ (Finished /\ SchemaFails) =>
           (returned = Err("SerdeError") /\ NoTrace)
    /\ (Finished /\ ConvertFails) =>
           (returned = Err("ConvertError") /\ NoTrace)
    /\ (Finished /\ GeneratorFails) => (returned = Panic /\ NoTrace)
    /\ (Finished /\ ~(SchemaFails \/ ConvertFails \/ GeneratorFails)) =>
           returned = Ok
    /\ ~Finished => returned = Pending
    /\ (returned.tag = "Ok" /\ phase = "built") => TraceComplete

\* C9's case: a three-step input whose first step generated two operations
\* and whose second step's generator failed; the call ended without a trace.
C9_Witness ==
    /\ phase = "panicked"
    /\ returned = Panic
    /\ NoTrace
    /\ Len(input.parsed) = 3
    /\ Len(GenTemplates(input.parsed[1].step)) = 2
    /\ GenFails(input.parsed[2].step)

\* What one add_op_to_container(op, i) call must leave, i being a step.
AddOpFrame(op, i) ==
    LET t == op.target
        k == Len(container'[t])
    IN  /\ container'[t] = Append(container[t], op)
        /\ container'[t][k] = op
        /\ \A u \in Targets \ {t} : container'[u] = container[u]
        /\ \A u \in Targets : \A n \in 1..Len(container[u]) :
              container'[u][n] = container[u][n]
        /\ steps'[i].bus_mapping_instance
              = Append(steps[i].bus_mapping_instance, OperationRef(t, k))
        /\ Resolve(container',
                   steps'[i].bus_mapping_instance[
                       Len(steps'[i].bus_mapping_instance)]) = op
        /\ Len(steps') = Len(steps)
        /\ \A j \in 1..Len(steps) :
              /\ j # i => steps'[j] = steps[j]
              /\ steps'[j].gc = steps[j].gc
              /\ \A n \in 1..Len(steps[j].bus_mapping_instance) :
                    /\ steps'[j].bus_mapping_instance[n]
                          = steps[j].bus_mapping_instance[n]
                    /\ RefValid(container', steps[j].bus_mapping_instance[n])
                    /\ Resolve(container', steps[j].bus_mapping_instance[n])
                          = Resolve(container, steps[j].bus_mapping_instance[n])

\* C13: add_op_to_container(op, i) appends op as the last entry of the store
\* of op's target, then appends to step i's bus-mapping instance one
\* OperationRef made of that target and the index op now occupies; the other
\* two stores, the entries already in any store, the bus-mapping instances
\* of the other steps and every step's global counter are unchanged, so
\* every OperationRef handed out earlier still locates the same operation.
C13_AddOpToContainer ==
    [][\A op \in AddOps : \A i \in 1..Len(steps) :
          add_op_to_container(op, i) => AddOpFrame(op, i)]_vars

\* C13's case: the PUSH1 0x40, PUSH1 0x80 trace after a stack operation was
\* added for its first step: the store that held the two generated writes
\* has a third entry, referenced from step 1 after the reference build gave
\* it, and step 2 still refers to the second entry.
C13_Witness ==
    /\ phase = "added"
    /\ added = 1
    /\ Len(steps) = 2
    /\ Len(container.Stack) = 3
    /\ steps[1].bus_mapping_instance
          = <<OperationRef("Stack", 1), OperationRef("Stack", 3)>>
    /\ steps[2].bus_mapping_instance = <<OperationRef("Stack", 2)>>
    /\ Resolve(container, OperationRef("Stack", 3)) = container.Stack[1]

---------------------------------------------------------------------------
(* Properties of the gadget part                                           *)

\* The counters of the row after row i: those of the next row, or the core
\* state as assign left it when row i is the last.
NextState(i) == IF i < Len(region) THEN region[i + 1].curr ELSE core_state

\* Whether every backend call of the assign that wrote row i succeeded.
RowAssigned(i) == region[i].calls = TotalCalls

\* Whether the Success polynomials all vanish on row i.
SuccessHolds(i) ==
    AllZero(success_polys(region[i].curr, NextState(i), region[i].cells))

\* The recorded arrays satisfy the carry chain limb by limb.
ChainHolds(v) ==
    \A i \in LimbIdx :
        v.a[i] + v.b[i] + (IF i = 1 THEN 0 ELSE v.carry[i - 1])
            = v.c[i] + 256 * v.carry[i]

\* The row the last assign call wrote.  Every row is the last one in the
\* state its assign call leaves, and neither its cells nor the state that
\* follows it change afterwards.
LastRows == {i \in 1..Len(region) : i = Len(region)}

\* C5: for a Success step with opcode 1 or 3 whose recorded arrays satisfy
\* the carry chain, assign writes swap = 1 exactly for opcode 3, and the row
\* it writes, with the core state it leaves as the next state, makes every
\* Success polynomial zero, under opcode 1 as under opcode 3.
C5_AssignedWitnessAccepted ==
    \A i \in LastRows :
        (/\ RowAssigned(i)
         /\ region[i].step.opcode \in {1, 3}
         /\ ChainHolds(region[i].step.values)) =>
            /\ region[i].cells.swap = (IF region[i].step.opcode = 3 THEN 1 ELSE 0)
            /\ SuccessHolds(i)

\* C5's case: the same arrays, with a carry in them, assigned once as ADD
\* and once as SUB, both rows accepted.
C5_Witness ==
    /\ Len(region) = 2
    /\ assign_result = "Ok"
    /\ region[1].step.opcode = 1
    /\ region[2].step.opcode = 3
    /\ region[1].step.values = region[2].step.values
    /\ region[1].step.values.carry[1] = 1
    /\ SuccessHolds(1) /\ SuccessHolds(2)

\* The changes tried on one cell.
PerturbDeltas == {-256, -255, -1, 1, 255, 256}
LimbCells == {"a", "b", "c", "carry"}

Perturbed(w, f, i, d) == [w EXCEPT ![f][i] = @ + d]

\* C6: on a row that satisfies the Success constraint set, changing one limb
\* of a, b or c, or one carry, and nothing else, makes some Success
\* polynomial non-zero.
C6_SinglePerturbationRejected ==
    \A r \in LastRows :
        SuccessHolds(r) =>
            \A f \in LimbCells, i \in LimbIdx, d \in PerturbDeltas :
                ~AllZero(success_polys(region[r].curr, NextState(r),
                                       Perturbed(region[r].cells, f, i, d)))

\* C6's case: an accepted row whose carries are all 1.
C6_Witness ==
    /\ Len(region) >= 1
    /\ SuccessHolds(1)
    /\ \A i \in LimbIdx : region[1].cells.carry[i] = 1

\* The StackUnderflow constraint set on the current core state, for a row
\* of the given opcode.
StackUnderflowHolds(opcode) ==
    AllZero(stack_underflow_polys(OpState(opcode, core_state)))

\* C7 as stated: the StackUnderflow set is satisfied exactly when the stack
\* pointer is 1023 or 1024.
C7_Original ==
    \A opcode \in Opcodes :
        StackUnderflowHolds(opcode)
            <=> core_state.stack_pointer \in {1023, 1024}

\* C7, amended: the StackUnderflow set, which carries the opcode polynomial
\* too, is satisfied exactly when the opcode is 1 or 3 and the stack pointer
\* is 1023 or 1024.
C7_StackUnderflow ==
    \A opcode \in Opcodes :
        StackUnderflowHolds(opcode)
            <=> (/\ opcode \in {1, 3}
                 /\ core_state.stack_pointer \in {1023, 1024})

\* C7's case: the stack pointer came to 1023 by an assign, and the set is
\* satisfied for ADD and SUB.
C7_Witness ==
    /\ Len(region) = 1
    /\ core_state.stack_pointer = 1023
    /\ StackUnderflowHolds(1)
    /\ StackUnderflowHolds(3)

\* The OutOfGas constraint set on the current core state and gas-available
\* cell, for a row of the given opcode.
OutOfGasHolds(opcode) ==
    AllZero(out_of_gas_polys(OpState(opcode, core_state), gas_available))

Shortfall == core_state.gas_counter + 3 - gas_available

\* C8 as stated: the OutOfGas set is satisfied exactly when the shortfall
\* gas_counter + 3 - gas_available is 1, 2 or 3.
C8_Original ==
    \A opcode \in Opcodes : OutOfGasHolds(opcode) <=> Shortfall \in {1, 2, 3}

\* C8, amended: the OutOfGas set, which carries the opcode polynomial too,
\* is satisfied exactly when the opcode is 1 or 3 and the shortfall is 1, 2
\* or 3.
C8_OutOfGas ==
    \A opcode \in Opcodes :
        OutOfGasHolds(opcode)
            <=> (opcode \in {1, 3} /\ Shortfall \in {1, 2, 3})

\* C8's case: after one assign the shortfall is 3 and the set is satisfied
\* for ADD and SUB.
C8_Witness ==
    /\ Len(region) = 1
    /\ core_state.gas_counter = 3
    /\ Shortfall = 3
    /\ OutOfGasHolds(1)
    /\ OutOfGasHolds(3)

\* The core state k successful Success steps after cs.
AfterSteps(cs, k) ==
    [global_counter  |-> cs.global_counter + 3 * k,
     program_counter |-> cs.program_counter + k,
     stack_pointer   |-> cs.stack_pointer + k,
     gas_counter     |-> cs.gas_counter + 3 * k]

CoreOf(st) ==
    [global_counter  |-> st.global_counter,
     program_counter |-> st.program_counter,
     stack_pointer   |-> st.stack_pointer,
     gas_counter     |-> st.gas_counter]

\* C10: while every assign call has succeeded, the state before and the
\* state after each call differ by (+3, +1, +1, +3) in (global counter,
\* stack pointer, program counter, gas counter), so they satisfy the four
\* state-transition polynomials, and after k calls the core state is the
\* first row's state plus k times that.
C10_CoreStateThreaded ==
    (assign_result = "Ok") =>
        /\ \A i \in 1..Len(region) :
              /\ CoreOf(NextState(i)) = AfterSteps(CoreOf(region[i].curr), 1)
              /\ AllZero(op_execution_state_transition_constraints(
                             region[i].curr, NextState(i)))
        /\ core_state = AfterSteps(CoreOf(region[1].curr), Len(region))

\* C10's case: two successful assign calls in a row.
C10_Witness ==
    /\ assign_result = "Ok"
    /\ Len(region) = 2
    /\ core_state.global_counter = 6
    /\ core_state.stack_pointer = 1024

\* The weight of limb k + 1.
Pow256(k) == 256 ^ k

\* The number a word stands for: its limbs read little-endian, limb 1 the
\* least significant.
RECURSIVE WordValue(_, _)
WordValue(word, k) ==
    IF k = 0 THEN 0
    ELSE WordValue(word, k - 1) + word[k] * Pow256(k - 1)

\* The carry out of the i lowest limbs of a + b, from the numbers themselves.
CarryOfSum(a, b, i) ==
    (WordValue(a, i) + WordValue(b, i)) \div Pow256(i)

\* Every limb of a, b and c is a byte and every carry is a bit.
InRange(w) ==
    \A i \in LimbIdx :
        /\ w.a[i] \in 0..255
        /\ w.b[i] \in 0..255
        /\ w.c[i] \in 0..255
        /\ w.carry[i] \in {0, 1}

\* c is a + b modulo 256^NumLimbs and each carry is the carry out of its
\* limb, the last one the overflow bit.
IsSum(w) ==
    /\ WordValue(w.c, NumLimbs)
         = (WordValue(w.a, NumLimbs) + WordValue(w.b, NumLimbs))
               % Pow256(NumLimbs)
    /\ \A i \in LimbIdx : w.carry[i] = CarryOfSum(w.a, w.b, i)

\* The values tried in one cell of a row.
ByteSamples == {0, 1, 255}

\* The cells of row r as assign left them and, when every cell of the row
\* was assigned, the same cells with one limb or one carry replaced.
ChainCandidates(r) ==
    {region[r].cells}
      \cup (IF RowAssigned(r)
            THEN {[region[r].cells EXCEPT ![f][i] = v] :
                      f \in {"a", "b", "c"}, i \in LimbIdx, v \in ByteSamples}
                   \cup {[region[r].cells EXCEPT !.carry[i] = v] :
                             i \in LimbIdx, v \in {0, 1}}
            ELSE {})

\* C11: when every limb of a, b and c is in 0..255 and every carry is 0 or
\* 1, the carry-chain polynomials are all zero exactly when c, read as
\* little-endian limbs, is (a + b) modulo 256^NumLimbs and each carry is the
\* carry out of its limb, the last carry being the overflow bit of a + b.
C11_CarryChainIsAddition ==
    \A r \in LastRows :
        \A w \in ChainCandidates(r) :
            InRange(w) => (AllZero(add_constraints(w)) <=> IsSum(w))

\* C11's case: an assigned row whose sum overflows the word: the chain is
\* satisfied, a carry ripples through every limb and the last carry is 1.
C11_Witness ==
    /\ Len(region) >= 1
    /\ RowAssigned(1)
    /\ InRange(region[1].cells)
    /\ AllZero(add_constraints(region[1].cells))
    /\ WordValue(region[1].cells.a, NumLimbs)
         + WordValue(region[1].cells.b, NumLimbs) >= Pow256(NumLimbs)
    /\ \A i \in LimbIdx : region[1].cells.carry[i] = 1

\* The opcodes and swap values tried on a row.
SwapSamples == {-1, 0, 1, 2}

\* C12: whenever the Success constraint set is satisfied, the opcode is 1 or
\* 3, swap is 0 or 1, and swap is 1 exactly when the opcode is 3 (SUB) and 0
\* exactly when the opcode is 1 (ADD).
C12_SwapFollowsOpcode ==
    \A r \in LastRows :
        \A opcode \in Opcodes, sw \in SwapSamples :
            AllZero(success_polys([region[r].curr EXCEPT !.opcode = opcode],
                                  NextState(r),
                                  [region[r].cells EXCEPT !.swap = sw])) =>
                /\ opcode \in {1, 3}
                /\ sw \in {0, 1}
                /\ (sw = 1) <=> (opcode = 3)
                /\ (sw = 0) <=> (opcode = 1)

\* C12's case: two rows satisfying the Success set, an ADD with swap 0 and
\* a SUB with swap 1.
C12_Witness ==
    /\ Len(region) = 2
    /\ SuccessHolds(1) /\ SuccessHolds(2)
    /\ region[1].curr.opcode = 1 /\ region[1].cells.swap = 0
    /\ region[2].curr.opcode = 3 /\ region[2].cells.swap = 1

\* C14: when assign is called for a Success step and one of the backend cell
\* assignments (swap, a, b, c or a carry) fails, assign returns that error
\* and the core state (global counter, program counter, stack pointer, gas
\* counter) is the same as before the call.
C14_Original ==
    [][\A step \in ExecutionSteps : \A n \in 0..(TotalCalls - 1) :
          AssignSuccess(step, n) =>
              /\ assign_result' = "Err"
              /\ core_state' = core_state]_vars

\* C14's case: the first assign call failed at its first backend call, the
\* assignment of swap; it returned the error, no cell of the row holds a
\* recorded value, and the core state is one step past the state the call
\* was given.
C14_Witness ==
    /\ assign_result = "Err"
    /\ Len(region) = 1
    /\ region[1].calls = 0
    /\ region[1].cells = AssignCells(region[1].step, 0)
    /\ CoreOf(region[1].curr) = [global_counter |-> 0, program_counter |-> 0,
                                 stack_pointer |-> 1000, gas_counter |-> 0]
    /\ core_state = [global_counter |-> 3, program_counter |-> 1,
                     stack_pointer |-> 1001, gas_counter |-> 3]

===========================================================================
